---- MODULE Spec2Model ----
(***************************************************************************)
(* ssm-dotenv: the edit / validate / diff / push workflow of               *)
(* src/ssm_dotenv/cli.py over the parameter-store helpers of               *)
(* src/ssm_dotenv/params.py.                                               *)
(*                                                                         *)
(* Text is modelled character by character: a string is a sequence of      *)
(* one-character strings, so that strip(), split("="), envname and the     *)
(* "\n".join of the snapshot are computed and not assumed.                 *)
(***************************************************************************)
EXTENDS Integers, Sequences, FiniteSets, TLC

\* ---------------------------------------------------------------- bounds

\* The most stray lines (lines that are no name=value line) an editor run
\* leaves at the end of the snapshot file.
MaxStray == 1

\* The most entries of a schema, of an edited mapping and of an existing
\* mapping handed to validate and diff when they are called directly.
MaxSchema == 3
MaxEdited == 3
MaxExisting == 2

\* ------------------------------------------------------------ text model

NL == "\n"
EQ == "="

\* Characters str.strip() removes from both ends (the ones the model uses).
Whitespace == {" ", NL}

\* str.upper() on one character of the model's alphabet.
UpperChar(c) ==
    CASE c = "a" -> "A"
      [] c = "b" -> "B"
      [] c = "c" -> "C"
      [] OTHER -> c

\* Param.envname: self.name.upper().replace('-', '_')
Envname(name) ==
    [i \in 1..Len(name) |->
        IF UpperChar(name[i]) = "-" THEN "_" ELSE UpperChar(name[i])]

\* str.strip(): drop leading and trailing whitespace.
RECURSIVE LStrip(_)
LStrip(s) ==
    IF s # <<>> /\ Head(s) \in Whitespace THEN LStrip(Tail(s)) ELSE s

RECURSIVE RStrip(_)
RStrip(s) ==
    IF s # <<>> /\ s[Len(s)] \in Whitespace
    THEN RStrip(SubSeq(s, 1, Len(s) - 1))
    ELSE s

Strip(s) == RStrip(LStrip(s))

\* str.split(sep) for a one-character separator: always at least one field.
RECURSIVE SplitAcc(_, _, _, _)
SplitAcc(s, sep, cur, done) ==
    IF s = <<>> THEN Append(done, cur)
    ELSE IF Head(s) = sep
         THEN SplitAcc(Tail(s), sep, <<>>, Append(done, cur))
         ELSE SplitAcc(Tail(s), sep, Append(cur, Head(s)), done)

Split(s, sep) == SplitAcc(s, sep, <<>>, <<>>)

\* sep.join(parts)
RECURSIVE Join(_, _)
Join(parts, sep) ==
    IF parts = <<>> THEN <<>>
    ELSE IF Len(parts) = 1 THEN parts[1]
    ELSE parts[1] \o <<sep>> \o Join(Tail(parts), sep)

\* file.readlines(): the lines of a text, each keeping its line terminator.
RECURSIVE ReadLinesAcc(_, _, _)
ReadLinesAcc(s, cur, done) ==
    IF s = <<>> THEN (IF cur = <<>> THEN done ELSE Append(done, cur))
    ELSE IF Head(s) = NL
         THEN ReadLinesAcc(Tail(s), <<>>, Append(done, Append(cur, NL)))
         ELSE ReadLinesAcc(Tail(s), Append(cur, Head(s)), done)

ReadLines(text) == ReadLinesAcc(text, <<>>, <<>>)

\* ------------------------------------------------- dict (insertion order)

\* A Python dict is a sequence of <<key, value>> pairs with distinct keys,
\* in insertion order.
DictKeys(d) == [i \in 1..Len(d) |-> d[i][1]]

DictKeySet(d) == {d[i][1] : i \in 1..Len(d)}

DictHas(d, k) == \E i \in 1..Len(d) : d[i][1] = k

DictGet(d, k) == d[CHOOSE i \in 1..Len(d) : d[i][1] = k][2]

\* d[k] = v: an existing key keeps its position, a new key goes last.
DictSet(d, k, v) ==
    IF DictHas(d, k)
    THEN [i \in 1..Len(d) |-> IF d[i][1] = k THEN <<k, v>> ELSE d[i]]
    ELSE Append(d, <<k, v>>)

\* All orders in which a finite set can be iterated.
RECURSIVE Orders(_)
Orders(S) ==
    IF S = {} THEN {<<>>}
    ELSE UNION {{<<x>> \o o : o \in Orders(S \ {x})} : x \in S}

Range(s) == {s[i] : i \in 1..Len(s)}

\* ------------------------------------------------------- program constants

\* params.py: VALID_PARAM_TYPES
VALID_PARAM_TYPES == {"String", "SecureString", "StringList"}

\* The project and the current stage the session runs under.
Project == "proj"
StageName == "dev"

\* params.py: create_param_path
create_param_path(project, stage_name, param_name) ==
    <<"/", project, stage_name, param_name>>

None == "None"

\* ------------------------------------------------------- the remote store

\* The stage's parameters are a function from parameter name to value.
\* Stage.get_params as a dict {p.name: p.value}, listed in the order `ord`
\* in which the store returns the parameters.
get_params(store, ord) == [i \in 1..Len(ord) |-> <<ord[i], store[ord[i]]>>]

\* Param.dotenv: "{}={}".format(self.envname, self.value)
dotenv(name, value) == Envname(name) \o <<EQ>> \o value

\* --------------------------------------------------------- Stage.validate

MsgNotInSchema == " exists in parameter store but is not in the schema"
MsgMissing == " defined in schema but missing from parameter store"

\* The names Stage.validate reads from a snapshot file:
\* line.strip().split("=")[0] of every line.
FileNames(text) ==
    {Split(Strip(l), EQ)[1] : l \in Range(ReadLines(text))}

\* The error list of one run of Stage.validate, the two set differences
\* being iterated in the orders o1 and o2.
ErrorList(o1, o2) ==
    [i \in 1..Len(o1) |-> <<o1[i], MsgNotInSchema>>]
    \o [i \in 1..Len(o2) |-> <<o2[i], MsgMissing>>]

\* Stage.validate without its second loop: names the schema declares and the
\* source lacks go unreported.
StageValidate_OneWay(schema_, existing_params) ==
    {ErrorList(o1, <<>>) :
        o1 \in Orders(existing_params \ DictKeySet(schema_))}

\* Stage.validate: every error list a run can build (a Python set iterates
\* in no fixed order); <<>> alone means no exception is raised.
StageValidate(schema_, existing_params) ==
    LET schema_params == DictKeySet(schema_)
    IN {ErrorList(o1, o2) :
            o1 \in Orders(existing_params \ schema_params),
            o2 \in Orders(schema_params \ existing_params)}

\* -------------------------------------------------- TemporaryFile methods

\* TemporaryFile.__init__: the text written to the temporary file.
RECURSIVE DotenvContent(_, _)
DotenvContent(fields, store) ==
    IF fields = <<>> THEN <<>>
    ELSE <<IF Head(fields) \in DOMAIN store
           THEN dotenv(Head(fields), store[Head(fields)])
           ELSE Head(fields) \o <<EQ>>>>
         \o DotenvContent(Tail(fields), store)

SnapshotText(schema_, store) ==
    Join(DotenvContent(DictKeys(schema_), store), NL) \o <<NL>>

\* TemporaryFile.open_editor, the loop after validate(): envs is reset and
\* filled line by line; a line that does not split into two fields raises
\* ValueError (the unpacking fails) and leaves envs as filled so far.
RECURSIVE ReparseAcc(_, _)
ReparseAcc(lines, acc) ==
    IF lines = <<>> THEN [ok |-> TRUE, envs |-> acc]
    ELSE LET fields == Split(Strip(Head(lines)), EQ)
         IN IF Len(fields) # 2
            THEN [ok |-> FALSE, envs |-> acc]
            ELSE ReparseAcc(Tail(lines), DictSet(acc, fields[1], fields[2]))

Reparse(text) == ReparseAcc(ReadLines(text), <<>>)

\* deleted_params that never finds a parameter to delete.
deleted_params_None(envs_, existing_params) == <<>>

\* TemporaryFile.deleted_params: the existing parameters missing from envs,
\* in the order the store lists them.
deleted_params(envs_, existing_params) ==
    SelectSeq(existing_params, LAMBDA p : ~DictHas(envs_, p[1]))

\* diff's record for an edited parameter without the comparison of the two
\* values: every existing parameter is reported as updated.
DiffEntry_NoCompare(param, value, existing_params) ==
    IF ~DictHas(existing_params, param)
    THEN IF value # <<>>
         THEN <<<<"Adding param", param, value>>>>
         ELSE <<<<"Warning: param not defined", param>>>>
    ELSE <<<<"Updating param", param, DictGet(existing_params, param), value>>>>

\* One record of TemporaryFile.diff for an edited parameter, or none.
DiffEntry(param, value, existing_params) ==
    IF ~DictHas(existing_params, param)
    THEN IF value # <<>>
         THEN <<<<"Adding param", param, value>>>>
         ELSE <<<<"Warning: param not defined", param>>>>
    ELSE IF DictGet(existing_params, param) # value
         THEN <<<<"Updating param", param, DictGet(existing_params, param), value>>>>
         ELSE <<>>

RECURSIVE DiffEdited(_, _)
DiffEdited(envs_, existing_params) ==
    IF envs_ = <<>> THEN <<>>
    ELSE DiffEntry(envs_[1][1], envs_[1][2], existing_params)
         \o DiffEdited(Tail(envs_), existing_params)

\* diff with the deletions listed before the additions and updates.
diff_DeletesFirst(envs_, existing_params) ==
    [i \in 1..Len(deleted_params(envs_, existing_params)) |->
          <<"Deleting param", deleted_params(envs_, existing_params)[i][1]>>]
    \o DiffEdited(envs_, existing_params)

\* TemporaryFile.diff
diff(envs_, existing_params) ==
    DiffEdited(envs_, existing_params)
    \o [i \in 1..Len(deleted_params(envs_, existing_params)) |->
          <<"Deleting param", deleted_params(envs_, existing_params)[i][1]>>]

\* ----------------------------------------------------- Param and Stage calls

NoExc == [type |-> None, cause |-> None, path |-> <<>>]

\* A botocore ClientError raised by the named client operation.
ClientError(operation) == "ClientError(" \o operation \o ")"

\* One call made on the boto3 client.
RemoteCall(op, name, value, type, desc) ==
    [op |-> op, path |-> create_param_path(Project, StageName, name),
     value |-> value, type |-> type, desc |-> desc]

\* What the remote side can do to one Param.create: accept everything, reject
\* put_parameter, reject add_tags_to_resource (called only with tags), or not
\* show the parameter to the refresh that follows.
CreateOutcomes(tags_) ==
    {"ok", "put_error", "not_found"} \cup (IF tags_ THEN {"tag_error"} ELSE {})

\* Param.create with the type checked only after put_parameter was called.
ParamCreate_LateTypeCheck(store, param_name, param_value, param_type, param_desc, tags_, outcome) ==
    [store |-> [n \in DOMAIN store \cup {param_name} |->
                   IF n = param_name THEN param_value ELSE store[n]],
     calls |-> <<RemoteCall("put_parameter", param_name, param_value,
                            param_type, param_desc)>>,
     exc |-> IF param_type \notin VALID_PARAM_TYPES
             THEN [type |-> "ParamCreateError",
                   cause |-> "Invalid parameter type", path |-> <<>>]
             ELSE NoExc]

\* Param.create(project, stage_name, param_name, param_value, param_type,
\*              param_desc, overwrite=True, tags): the store afterwards, the
\* client calls made, and the exception raised (NoExc: the Param is returned).
\* `path` of an exception is the parameter path its message names, <<>> when
\* the message names none.
ParamCreate(store, param_name, param_value, param_type, param_desc, tags_, outcome) ==
    LET param_path == create_param_path(Project, StageName, param_name)
        put == RemoteCall("put_parameter", param_name, param_value, param_type,
                          param_desc)
        tag == RemoteCall("add_tags_to_resource", param_name, <<>>, None, None)
        written == [n \in DOMAIN store \cup {param_name} |->
                       IF n = param_name THEN param_value ELSE store[n]]
    IN IF param_type \notin VALID_PARAM_TYPES
       THEN [store |-> store, calls |-> <<>>,
             exc |-> [type |-> "ParamCreateError",
                      cause |-> "Invalid parameter type", path |-> <<>>]]
       ELSE IF outcome = "put_error"
       THEN [store |-> store, calls |-> <<put>>,
             exc |-> [type |-> "ParamCreateError",
                      cause |-> ClientError("PutParameter"), path |-> <<>>]]
       ELSE IF tags_ /\ outcome = "tag_error"
       THEN [store |-> written, calls |-> <<put, tag>>,
             exc |-> [type |-> "ParamCreateError",
                      cause |-> ClientError("AddTagsToResource"), path |-> <<>>]]
       ELSE IF outcome = "not_found"
       THEN [store |-> written,
             calls |-> IF tags_ THEN <<put, tag>> ELSE <<put>>,
             exc |-> [type |-> "ParamCreateError",
                      cause |-> "Something went wrong creating",
                      path |-> param_path]]
       ELSE [store |-> written,
             calls |-> IF tags_ THEN <<put, tag>> ELSE <<put>>,
             exc |-> NoExc]

DeleteOutcomes == {"ok", "delete_error"}

\* Param.delete(project, stage_name, param_name)
ParamDelete(store, param_name, outcome) ==
    LET param_path == create_param_path(Project, StageName, param_name)
        del == RemoteCall("delete_parameter", param_name, <<>>, None, None)
    IN IF outcome = "delete_error"
       THEN [store |-> store, calls |-> <<del>>,
             exc |-> [type |-> "ParamDeleteError",
                      cause |-> ClientError("DeleteParameter"),
                      path |-> param_path]]
       ELSE [store |-> [n \in DOMAIN store \ {param_name} |-> store[n]],
             calls |-> <<del>>, exc |-> NoExc]

\* Stage.delete with every failure swallowed: nothing is raised and nothing
\* is deleted.
StageDelete_Swallow(store, args, outcome) ==
    [store |-> store, calls |-> <<>>, exc |-> NoExc]

\* Stage.delete(self, config, param_name) called with the positional
\* arguments `args`: binding fails with TypeError unless there are two.
StageDelete(store, args, outcome) ==
    IF Len(args) # 2
    THEN [store |-> store, calls |-> <<>>,
          exc |-> [type |-> "TypeError",
                   cause |-> "missing 1 required positional argument",
                   path |-> <<>>]]
    ELSE ParamDelete(store, args[2], outcome)

\* The arguments TemporaryFile.push_updates passes to Stage.delete.
PushDeleteArgs(param) == <<param>>

\* ------------------------------------------------------- session inputs

NameA == <<"A">>
NameB == <<"B">>
NameC == <<"c", "-">>
ParamNames == {NameA, NameB, NameC}

ValX == <<"x">>
ValY == <<"y">>

\* The config's schema: name -> [type, description?], in declaration order.
SchemaFull ==
    << <<NameA, <<"String", "first">> >>,
       <<NameB, <<"SecureString">> >>,
       <<NameC, <<"StringList", "third">> >> >>

SessionSchemas == {SchemaFull, SubSeq(SchemaFull, 1, 2)}

\* The stage's parameters when the session starts.
InitStores ==
    {[n \in S |-> ValY] :
        S \in {{}, {NameA}, {NameA, NameB}, {NameA, NameB, NameC},
               {NameC}, {NameA, NameC}}}

\* What the user leaves in the file for one parameter: no line, or the
\* line name=value with one of the values tried for that name.
Line(n, v) == n \o <<EQ>> \o v \o <<NL>>

EditValues(n) == IF n = NameA THEN {<<>>, ValX, ValY} ELSE {ValX}

SlotLines(n) == {<<>>} \cup {Line(n, v) : v \in EditValues(n)}

\* Lines that are no name=value line: no separator, two separators, blank.
StrayLines ==
    {NameA \o <<NL>>, Line(NameA, ValX \o <<EQ>>), <<" ", NL>>}

RECURSIVE Tails(_)
Tails(n) ==
    IF n = 0 THEN {<<>>}
    ELSE Tails(n - 1) \cup {t \o l : t \in Tails(n - 1), l \in StrayLines}

\* The texts an editor run can leave in the file (besides leaving it as is).
EditorTexts ==
    {a \o b \o c \o t : a \in SlotLines(NameA), b \in SlotLines(NameB),
                        c \in SlotLines(NameC), t \in Tails(MaxStray)}

\* ------------------------------------------------------------- the state

VARIABLES
    pc,         \* where __edit_stage stands
    schema,     \* config["schema"]
    tags,       \* whether config["tags"] is non-empty
    remote,     \* the stage's parameters in the parameter store
    remote0,    \* the stage's parameters when the session started
    file,       \* the text of the temporary file
    tmpExists,  \* whether the temporary file exists
    envs,       \* TemporaryFile.envs
    changes,    \* the change list of the last diff()
    errors,     \* the error list of the last validate()
    calls,      \* the client calls the session has made, in order
    exc,        \* the exception that ended the session, or NoExc
    pushIdx,    \* push_updates: position in envs
    pending,    \* push_updates: the deleted params still to delete
    fn,         \* the command or direct call run besides the session, with its
                \* state or result
    notices     \* the notices push_updates has echoed

vars == <<pc, schema, tags, remote, remote0, file, tmpExists, envs, changes, errors,
          calls, exc, pushIdx, pending, fn, notices>>

session == <<pc, schema, tags, remote, remote0, file, tmpExists, envs, changes, errors,
             calls, exc, pushIdx, pending, notices>>

NoCall == [op |-> "none"]

Init ==
    /\ pc = "start"
    /\ schema \in SessionSchemas
    /\ tags \in BOOLEAN
    /\ remote \in InitStores
    /\ remote0 = remote
    /\ file = <<>>
    /\ tmpExists = FALSE
    /\ envs = <<>>
    /\ changes = <<>>
    /\ errors = <<>>
    /\ calls = <<>>
    /\ exc = NoExc
    /\ pushIdx = 0
    /\ pending = <<>>
    /\ fn = NoCall
    /\ notices = <<>>

\* __edit_stage up to the first editor run: TemporaryFile(...) writes the
\* snapshot to a new temporary file.
EditStage ==
    /\ pc = "start"
    /\ file' = SnapshotText(schema, remote)
    /\ tmpExists' = TRUE
    /\ envs' = <<>>
    /\ pc' = "editor"
    /\ UNCHANGED <<schema, tags, remote0, remote, changes, errors, calls, exc,
                   pushIdx, pending, fn, notices>>

\* The loop of __edit_stage without its "if not changes" return.
AfterDiff_NoShortCircuit(changes_) == "confirm_accept"

\* Where the loop of __edit_stage goes with the change list of tf.diff().
AfterDiff(changes_) ==
    IF changes_ # <<>> THEN "confirm_accept" ELSE "no_changes"

\* The editor exits: tf.open_editor() validates and reparses the file, then
\* tf.diff() runs, up to the next prompt, return or exception.
OpenEditor ==
    /\ pc = "editor"
    /\ \E text \in EditorTexts \cup {file} :
       \E errs \in StageValidate(schema, FileNames(text)) :
         /\ file' = text
         /\ errors' = errs
         /\ IF errs # <<>>
            THEN /\ pc' = "confirm_invalid"
                 /\ UNCHANGED <<envs, changes, exc>>
            ELSE LET r == Reparse(text)
                 IN /\ envs' = r.envs
                    /\ IF ~r.ok
                       THEN /\ pc' = "crashed"
                            /\ exc' = [type |-> "ValueError",
                                       cause |-> "values to unpack",
                                       path |-> <<>>]
                            /\ UNCHANGED changes
                       ELSE \E ord \in Orders(DOMAIN remote) :
                              /\ changes' = diff(r.envs, get_params(remote, ord))
                              /\ pc' = AfterDiff(changes')
                              /\ UNCHANGED exc
    /\ UNCHANGED <<schema, tags, remote0, remote, tmpExists, calls, pushIdx, pending, fn, notices>>

\* "Accept changes?" answered yes: break, then tf.push_updates() starts.
AcceptChanges ==
    /\ pc = "confirm_accept"
    /\ pc' = "push"
    /\ pushIdx' = 1
    /\ UNCHANGED <<schema, tags, remote0, remote, file, tmpExists, envs, changes,
                   errors, calls, exc, pending, fn, notices>>

\* "Accept changes?" answered no: "Continue editing?" is asked.
RejectChanges ==
    /\ pc = "confirm_accept"
    /\ pc' = "confirm_continue"
    /\ UNCHANGED <<schema, tags, remote0, remote, file, tmpExists, envs, changes,
                   errors, calls, exc, pushIdx, pending, fn, notices>>

\* "Continue editing?" answered yes, after a rejected diff or after a
\* validation failure: the loop runs the editor again. Leaving the except
\* clause unbinds the exception and its error list.
ContinueEditing ==
    /\ pc \in {"confirm_continue", "confirm_invalid"}
    /\ pc' = "editor"
    /\ errors' = <<>>
    /\ UNCHANGED <<schema, tags, remote0, remote, file, tmpExists, envs, changes,
                   calls, exc, pushIdx, pending, fn, notices>>

\* "Continue editing?" answered no: click.confirm(abort=True) raises Abort.
DeclineEditing ==
    /\ pc \in {"confirm_continue", "confirm_invalid"}
    /\ pc' = "aborted"
    /\ exc' = [type |-> "Abort", cause |-> None, path |-> <<>>]
    /\ UNCHANGED <<schema, tags, remote0, remote, file, tmpExists, envs, changes,
                   errors, calls, pushIdx, pending, fn, notices>>

\* The notice push_updates echoes for an edited key without a schema entry.
MsgSkip(param, value) == <<"not in schema, skipping update", param, value>>

\* One turn of the create loop without the "not in schema" test: the lookup
\* schema[param] of a key without an entry raises KeyError.
PushCreate_NoSkip ==
    /\ pc = "push"
    /\ pushIdx <= Len(envs)
    /\ LET param == envs[pushIdx][1]
       IN IF ~DictHas(schema, param)
          THEN /\ pc' = "crashed"
               /\ exc' = [type |-> "KeyError", cause |-> None, path |-> <<>>]
               /\ UNCHANGED <<pushIdx, remote, calls, notices>>
          ELSE \E outcome \in CreateOutcomes(tags) :
                 LET r == ParamCreate(remote, param, envs[pushIdx][2],
                                      DictGet(schema, param)[1], None, tags,
                                      outcome)
                 IN /\ remote' = r.store
                    /\ calls' = calls \o r.calls
                    /\ exc' = r.exc
                    /\ UNCHANGED notices
                    /\ IF r.exc # NoExc
                       THEN pc' = "crashed" /\ UNCHANGED pushIdx
                       ELSE pushIdx' = pushIdx + 1 /\ UNCHANGED pc
    /\ UNCHANGED <<schema, tags, remote0, file, tmpExists, envs, changes, errors,
                   pending, fn>>

\* push_updates, one turn of "for param in self.envs".
PushCreate ==
    /\ pc = "push"
    /\ pushIdx <= Len(envs)
    /\ LET param == envs[pushIdx][1]
       IN IF ~DictHas(schema, param)
          THEN /\ notices' = Append(notices, MsgSkip(param, envs[pushIdx][2]))
               /\ pushIdx' = pushIdx + 1
               /\ UNCHANGED <<pc, remote, calls, exc>>
          ELSE \E outcome \in CreateOutcomes(tags) :
                 LET param_type == DictGet(schema, param)[1]
                     param_desc == IF Len(DictGet(schema, param)) > 1
                                   THEN DictGet(schema, param)[2]
                                   ELSE None
                     r == ParamCreate(remote, param, envs[pushIdx][2],
                                      param_type, param_desc, tags, outcome)
                 IN /\ remote' = r.store
                    /\ calls' = calls \o r.calls
                    /\ exc' = r.exc
                    /\ UNCHANGED notices
                    /\ IF r.exc # NoExc
                       THEN pc' = "crashed" /\ UNCHANGED pushIdx
                       ELSE pushIdx' = pushIdx + 1 /\ UNCHANGED pc
    /\ UNCHANGED <<schema, tags, remote0, file, tmpExists, envs, changes, errors,
                   pending, fn>>

\* push_updates, after the creates: self.deleted_params() is evaluated.
PushListDeleted ==
    /\ pc = "push"
    /\ pushIdx > Len(envs)
    /\ \E ord \in Orders(DOMAIN remote) :
         pending' = DictKeys(deleted_params(envs, get_params(remote, ord)))
    /\ pc' = "push_delete"
    /\ UNCHANGED <<schema, tags, remote0, remote, file, tmpExists, envs, changes,
                   errors, calls, exc, pushIdx, fn, notices>>

\* push_updates, one turn of "for param in self.deleted_params()".
PushDelete ==
    /\ pc = "push_delete"
    /\ pending # <<>>
    /\ \E outcome \in DeleteOutcomes :
         LET r == StageDelete(remote, PushDeleteArgs(Head(pending)), outcome)
         IN /\ remote' = r.store
            /\ calls' = calls \o r.calls
            /\ exc' = r.exc
            /\ IF r.exc # NoExc
               THEN pc' = "crashed" /\ UNCHANGED pending
               ELSE pending' = Tail(pending) /\ UNCHANGED pc
    /\ UNCHANGED <<schema, tags, remote0, file, tmpExists, envs, changes, errors,
                   pushIdx, fn, notices>>

\* push_updates has returned: tf.delete() unlinks the file and
\* __edit_stage returns.
TfDelete ==
    /\ pc = "push_delete"
    /\ pending = <<>>
    /\ tmpExists' = FALSE
    /\ pc' = "done"
    /\ UNCHANGED <<schema, tags, remote0, remote, file, envs, changes, errors, calls,
                   exc, pushIdx, pending, fn, notices>>

Next ==
    \/ EditStage
    \/ OpenEditor
    \/ AcceptChanges
    \/ RejectChanges
    \/ ContinueEditing
    \/ DeclineEditing
    \/ PushCreate
    \/ PushListDeleted
    \/ PushDelete
    \/ TfDelete

Spec == Init /\ [][Next]_vars

\* ------------------------------------------- validate and diff on their own

NameD == <<"D">>
FnNames == ParamNames \cup {NameD}

\* The dicts of at most n entries with keys in `names` and values in `values`,
\* in every insertion order.
RECURSIVE DictsOver(_, _, _)
DictsOver(names, values, n) ==
    IF n = 0 THEN {<<>>}
    ELSE LET shorter == DictsOver(names, values, n - 1)
         IN shorter \cup
            UNION {{Append(d, <<k, v>>) : k \in names \ DictKeySet(d), v \in values}
                   : d \in shorter}

InitFn ==
    /\ Init
    /\ schema = SchemaFull
    /\ tags = FALSE
    /\ remote = [n \in {} |-> ValY]

\* The validate command: stage.validate(config["schema"]) against the names
\* of the stage's parameters.
ValidateCall ==
    /\ fn = NoCall
    /\ notices = <<>>
    /\ \E sch \in DictsOver(FnNames, {<<"String">>}, MaxSchema) :
       \E names \in SUBSET FnNames :
       \E errs \in StageValidate(sch, names) :
         fn' = [op |-> "validate", schema |-> sch, names |-> names,
                errors |-> errs]
    /\ UNCHANGED session

\* TemporaryFile.diff() for an edited mapping and the stage's parameters.
DiffCall ==
    /\ fn = NoCall
    /\ notices = <<>>
    /\ \E edited \in DictsOver(FnNames, {<<>>, ValX, ValY}, MaxEdited) :
       \E existing \in DictsOver(FnNames, {ValY}, MaxExisting) :
         fn' = [op |-> "diff", edited |-> edited, existing |-> existing,
                changes |-> diff(edited, existing)]
    /\ UNCHANGED session

\* TemporaryFile.__init__ for a schema and the stage's parameters: the text
\* it writes to the temporary file.
SnapshotCall ==
    /\ fn = NoCall
    /\ notices = <<>>
    /\ \E sch \in DictsOver(FnNames, {<<"String">>}, MaxSchema) :
       \E names \in SUBSET FnNames :
         fn' = [op |-> "snapshot", schema |-> sch,
                store |-> [n \in names |-> ValY],
                text |-> SnapshotText(sch, [n \in names |-> ValY])]
    /\ UNCHANGED session

NextFn ==
    \/ ValidateCall
    \/ DiffCall
    \/ SnapshotCall

SpecFn == InitFn /\ [][NextFn]_vars

\* --------------------------------------- sessions with several names to delete

\* Stage contents for a schema of A alone: nothing to delete, or B and c- to
\* delete with A present or absent.
DelStores ==
    {[n \in names |-> ValY] : names \in {{NameA}, {NameA, NameB, NameC},
                                          {NameB, NameC}}}

InitDel ==
    /\ pc = "start"
    /\ schema = SubSeq(SchemaFull, 1, 1)
    /\ tags \in BOOLEAN
    /\ remote \in DelStores
    /\ remote0 = remote
    /\ file = <<>>
    /\ tmpExists = FALSE
    /\ envs = <<>>
    /\ changes = <<>>
    /\ errors = <<>>
    /\ calls = <<>>
    /\ exc = NoExc
    /\ pushIdx = 0
    /\ pending = <<>>
    /\ fn = NoCall
    /\ notices = <<>>

SpecDel == InitDel /\ [][Next]_vars

\* ------------------------------ sessions with the config file rewritten

CfgStores ==
    {[n \in names |-> ValY] : names \in {{}, {NameA, NameB},
                                          {NameA, NameB, NameC}}}

InitCfg ==
    /\ Init
    /\ schema = SubSeq(SchemaFull, 1, 2)
    /\ tags = FALSE
    /\ remote \in CfgStores

\* Every use of the schema is get_config(config_file)["schema"], read from
\* the file anew; push_updates reads it after the user accepted the diff.
\* While the session waits at "Accept changes?" the file is rewritten with
\* one schema entry removed.
ConfigSchemaDrop ==
    /\ pc = "confirm_accept"
    /\ Len(schema) > 1
    /\ \E i \in 1..Len(schema) :
         schema' = SubSeq(schema, 1, i - 1) \o SubSeq(schema, i + 1, Len(schema))
    /\ UNCHANGED <<pc, tags, remote, remote0, file, tmpExists, envs, changes,
                   errors, calls, exc, pushIdx, pending, fn, notices>>

NextCfg ==
    \/ Next
    \/ ConfigSchemaDrop

SpecCfg == InitCfg /\ [][NextCfg]_vars

\* ------------------------------------------------------------ the add command

MaxAdds == 2

\* A Python str as the sequence of its characters: indexing a schema entry
\* that is a str yields one character.
Chars(t) ==
    CASE t = "String" -> <<"S", "t", "r", "i", "n", "g">>
      [] t = "SecureString" ->
           <<"S", "e", "c", "u", "r", "e", "S", "t", "r", "i", "n", "g">>
      [] t = "StringList" ->
           <<"S", "t", "r", "i", "n", "g", "L", "i", "s", "t">>

\* config["schema"][param_name] used as param_type: the str when the entry
\* is a str, and "list" for an entry that is a list (equal to no str).
EntryAsType(entry) ==
    IF \E t \in VALID_PARAM_TYPES : Chars(t) = entry
    THEN CHOOSE t \in VALID_PARAM_TYPES : Chars(t) = entry
    ELSE "list"

\* The param-type argument of add: omitted, valid, or not a parameter type.
AddTypes == {None, "String", "SecureString", "Bogus"}

AddNames == {NameA, NameD}

AddCount == IF fn.op = "add" THEN fn.n ELSE 0

InitAdd ==
    /\ Init
    /\ remote = [n \in {} |-> ValY]

\* One run of the add command. remote0 is the store before the run and calls
\* are the client calls of the run.
AddCmd ==
    /\ pc = "start"
    /\ AddCount < MaxAdds
    /\ remote0' = remote
    /\ \E param_name \in AddNames, param_value \in {ValX, ValY}, arg \in AddTypes :
         IF arg = None /\ ~DictHas(schema, param_name)
         THEN /\ fn' = [op |-> "add", n |-> AddCount + 1, name |-> param_name,
                        type |-> None, result |-> "unknown type"]
              /\ calls' = <<>>
              /\ exc' = NoExc
              /\ UNCHANGED <<remote, schema>>
         ELSE \E outcome \in CreateOutcomes(tags) :
                LET param_type == IF arg = None
                                  THEN EntryAsType(DictGet(schema, param_name))
                                  ELSE arg
                    r == ParamCreate(remote, param_name, param_value,
                                     param_type, None, tags, outcome)
                IN /\ remote' = r.store
                   /\ calls' = r.calls
                   /\ exc' = r.exc
                   /\ IF r.exc # NoExc
                      THEN /\ fn' = [op |-> "add", n |-> AddCount + 1,
                                     name |-> param_name, type |-> param_type,
                                     result |-> "aborted"]
                           /\ UNCHANGED schema
                      ELSE /\ fn' = [op |-> "add", n |-> AddCount + 1,
                                     name |-> param_name, type |-> param_type,
                                     result |-> "created"]
                           /\ schema' =
                                IF \/ ~DictHas(schema, param_name)
                                   \/ DictGet(schema, param_name) # Chars(param_type)
                                THEN DictSet(schema, param_name, Chars(param_type))
                                ELSE schema
    /\ UNCHANGED <<pc, tags, file, tmpExists, envs, changes, errors, pushIdx,
                   pending, notices>>

NextAdd == AddCmd

SpecAdd == InitAdd /\ [][NextAdd]_vars

\* ------------------------------------------------------------ the new command

MaxSleep == 2

\* current_stage(): os.getenv('CURRENT'), with '' read as None.
current_stage(CURRENT) == IF CURRENT = "" THEN None ELSE CURRENT

\* switch_to(stage): the text written to the .env file beside the package.
switch_to(stage) == "CURRENT=" \o stage

\* The stages of the project, the value of CURRENT in os.environ once
\* load_dotenv has run at import, and the answers to the name prompt.
StageSets == {{}, {"dev"}, {"dev", "prod"}}
Environs == {None, "", "dev", "qa"}
PromptNames == {"", "dev", "qa"}

\* base_stage before any assignment to it.
Unbound == "unbound"

InitNew ==
    /\ pc = "start"
    /\ schema = SchemaFull
    /\ tags = FALSE
    /\ remote = [n \in {} |-> ValY]
    /\ remote0 = remote
    /\ file = <<>>
    /\ tmpExists = FALSE
    /\ envs = <<>>
    /\ changes = <<>>
    /\ errors = <<>>
    /\ calls = <<>>
    /\ exc = NoExc
    /\ pushIdx = 0
    /\ pending = <<>>
    /\ notices = <<>>
    /\ \E stages \in StageSets, CURRENT \in Environs :
         fn = [op |-> "new", at |-> "prompt", stages |-> stages,
               environ |-> CURRENT,
               env_file |-> IF CURRENT = None THEN "" ELSE switch_to(CURRENT),
               stage_name |-> None, base_stage |-> Unbound, slept |-> 0]

\* new up to its confirm: the name is prompted for, refused when empty or
\* taken, and otherwise written by switch_to.
NewPrompt ==
    /\ fn.op = "new" /\ fn.at = "prompt"
    /\ \E name \in PromptNames :
         IF name = "" \/ name \in fn.stages
         THEN fn' = [fn EXCEPT !.at = "aborted"]
         ELSE fn' = [fn EXCEPT !.at = "confirm", !.stage_name = name,
                               !.env_file = switch_to(name)]
    /\ UNCHANGED session

\* "Populate parameters from existing stage?" answered yes:
\* __select_a_stage raises ClickException when the project has no stage and
\* otherwise returns the stage chosen.
NewPopulate ==
    /\ fn.op = "new" /\ fn.at = "confirm"
    /\ IF fn.stages = {}
       THEN fn' = [fn EXCEPT !.at = "no stages"]
       ELSE \E base \in fn.stages :
              fn' = [fn EXCEPT !.at = "wait", !.base_stage = base]
    /\ UNCHANGED session

\* The confirm answered no: base_stage is not assigned.
NewDecline ==
    /\ fn.op = "new" /\ fn.at = "confirm"
    /\ fn' = [fn EXCEPT !.at = "wait"]
    /\ UNCHANGED session

\* One turn of "while current_stage() != stage_name: time.sleep(1)".
NewSleep ==
    /\ fn.op = "new" /\ fn.at = "wait"
    /\ current_stage(fn.environ) # fn.stage_name
    /\ fn.slept < MaxSleep
    /\ fn' = [fn EXCEPT !.slept = fn.slept + 1]
    /\ UNCHANGED session

\* The loop condition is false: __edit_stage(config_file,
\* copy_values_from=base_stage) is called, and evaluating base_stage raises
\* UnboundLocalError when it was never assigned.
NewEdit ==
    /\ fn.op = "new" /\ fn.at = "wait"
    /\ current_stage(fn.environ) = fn.stage_name
    /\ fn' = [fn EXCEPT !.at = IF fn.base_stage = Unbound
                               THEN "UnboundLocalError"
                               ELSE "edit"]
    /\ UNCHANGED session

NextNew ==
    \/ NewPrompt
    \/ NewPopulate
    \/ NewDecline
    \/ NewSleep
    \/ NewEdit

SpecNew == InitNew /\ [][NextNew]_vars

\* ------------------------------------------- two sessions on one stage

Sessions == {1, 2}

TwoStores ==
    {[n \in names |-> ValY] : names \in {{NameA, NameB}, {NameA, NameB, NameC}}}

\* What an editor run of either session leaves in the file: for A and for B
\* no line, the value x or the value y.
TwoTexts ==
    {a \o b : a \in {<<>>, Line(NameA, ValX), Line(NameA, ValY)},
              b \in {<<>>, Line(NameB, ValX), Line(NameB, ValY)}}

\* Both invocations have built their TemporaryFile from the stage as it was
\* and are about to run the editor.
InitTwo ==
    /\ pc = "start"
    /\ schema = SubSeq(SchemaFull, 1, 2)
    /\ tags = FALSE
    /\ remote \in TwoStores
    /\ remote0 = remote
    /\ file = <<>>
    /\ tmpExists = FALSE
    /\ envs = <<>>
    /\ changes = <<>>
    /\ errors = <<>>
    /\ calls = <<>>
    /\ exc = NoExc
    /\ pushIdx = 0
    /\ pending = <<>>
    /\ notices = <<>>
    /\ fn = [op |-> "two",
             s |-> [i \in Sessions |->
                      [at |-> "editor", file |-> SnapshotText(schema, remote),
                       envs |-> <<>>, changes |-> <<>>, exc |-> NoExc,
                       pushIdx |-> 0, pending |-> <<>>]]]

\* Session i: one pass of the loop of __edit_stage, with "Continue editing?"
\* declined after a failed validation and "Accept changes?" accepted.
TwoEditor(i) ==
    /\ fn.op = "two" /\ fn.s[i].at = "editor"
    /\ \E text \in TwoTexts \cup {fn.s[i].file} :
       \E errs \in StageValidate(schema, FileNames(text)) :
         IF errs # <<>>
         THEN fn' = [fn EXCEPT !.s[i].file = text, !.s[i].at = "aborted"]
         ELSE LET r == Reparse(text)
              IN IF ~r.ok
                 THEN fn' = [fn EXCEPT !.s[i].file = text, !.s[i].envs = r.envs,
                                       !.s[i].at = "crashed",
                                       !.s[i].exc = [type |-> "ValueError",
                                                     cause |-> "values to unpack",
                                                     path |-> <<>>]]
                 ELSE \E ord \in Orders(DOMAIN remote) :
                        LET ch == diff(r.envs, get_params(remote, ord))
                        IN fn' = [fn EXCEPT !.s[i].file = text,
                                            !.s[i].envs = r.envs,
                                            !.s[i].changes = ch,
                                            !.s[i].pushIdx =
                                                IF ch = <<>> THEN 0 ELSE 1,
                                            !.s[i].at =
                                                IF ch = <<>> THEN "no_changes"
                                                ELSE "push"]
    /\ UNCHANGED session

\* Session i: one turn of the create loop of push_updates.
TwoPushCreate(i) ==
    /\ fn.op = "two" /\ fn.s[i].at = "push"
    /\ fn.s[i].pushIdx <= Len(fn.s[i].envs)
    /\ LET e == fn.s[i].envs[fn.s[i].pushIdx]
       IN IF ~DictHas(schema, e[1])
          THEN /\ notices' = Append(notices, MsgSkip(e[1], e[2]))
               /\ fn' = [fn EXCEPT !.s[i].pushIdx = @ + 1]
               /\ UNCHANGED <<remote, calls>>
          ELSE \E outcome \in CreateOutcomes(tags) :
                 LET r == ParamCreate(remote, e[1], e[2],
                                      DictGet(schema, e[1])[1],
                                      IF Len(DictGet(schema, e[1])) > 1
                                      THEN DictGet(schema, e[1])[2] ELSE None,
                                      tags, outcome)
                 IN /\ remote' = r.store
                    /\ calls' = calls \o r.calls
                    /\ UNCHANGED notices
                    /\ fn' = IF r.exc # NoExc
                             THEN [fn EXCEPT !.s[i].at = "crashed",
                                             !.s[i].exc = r.exc]
                             ELSE [fn EXCEPT !.s[i].pushIdx = @ + 1]
    /\ UNCHANGED <<pc, schema, tags, remote0, file, tmpExists, envs, changes,
                   errors, exc, pushIdx, pending>>

\* Session i: self.deleted_params() is evaluated after the creates.
TwoListDeleted(i) ==
    /\ fn.op = "two" /\ fn.s[i].at = "push"
    /\ fn.s[i].pushIdx > Len(fn.s[i].envs)
    /\ \E ord \in Orders(DOMAIN remote) :
         fn' = [fn EXCEPT !.s[i].at = "push_delete",
                          !.s[i].pending =
                              DictKeys(deleted_params(fn.s[i].envs,
                                                      get_params(remote, ord)))]
    /\ UNCHANGED session

\* Session i: one turn of the delete loop of push_updates.
TwoDelete(i) ==
    /\ fn.op = "two" /\ fn.s[i].at = "push_delete"
    /\ fn.s[i].pending # <<>>
    /\ \E outcome \in DeleteOutcomes :
         LET r == StageDelete(remote, PushDeleteArgs(Head(fn.s[i].pending)),
                              outcome)
         IN /\ remote' = r.store
            /\ calls' = calls \o r.calls
            /\ fn' = IF r.exc # NoExc
                     THEN [fn EXCEPT !.s[i].at = "crashed", !.s[i].exc = r.exc]
                     ELSE [fn EXCEPT !.s[i].pending = Tail(@)]
    /\ UNCHANGED <<pc, schema, tags, remote0, file, tmpExists, envs, changes,
                   errors, exc, pushIdx, pending, notices>>

\* Session i: push_updates has returned and tf.delete() ends the session.
TwoDone(i) ==
    /\ fn.op = "two" /\ fn.s[i].at = "push_delete"
    /\ fn.s[i].pending = <<>>
    /\ fn' = [fn EXCEPT !.s[i].at = "done"]
    /\ UNCHANGED session

NextTwo ==
    \E i \in Sessions :
        \/ TwoEditor(i)
        \/ TwoPushCreate(i)
        \/ TwoListDeleted(i)
        \/ TwoDelete(i)
        \/ TwoDone(i)

SpecTwo == InitTwo /\ [][NextTwo]_vars

\* ------------------------------------------------------------ properties

Count(seq, x) == Cardinality({i \in DOMAIN seq : seq[i] = x})

KeyPos(d, k) == CHOOSE i \in 1..Len(d) : d[i][1] = k

IsDelete(c) == c[1] = "Deleting param"

\* C8: Stage.validate succeeds iff the names at the source equal the schema
\* keys; otherwise its error list holds exactly one "exists in parameter
\* store but is not in the schema" entry per name outside the schema and
\* exactly one "defined in schema but missing from parameter store" entry
\* per schema key absent from the source, and nothing else.
C8_ValidateSymmetricDifference ==
    fn.op = "validate" =>
        LET S == DictKeySet(fn.schema)
            P == fn.names
            E == fn.errors
        IN /\ (E = <<>>) <=> (P = S)
           /\ \A n \in P \ S : Count(E, <<n, MsgNotInSchema>>) = 1
           /\ \A n \in S \ P : Count(E, <<n, MsgMissing>>) = 1
           /\ Len(E) = Cardinality(P \ S) + Cardinality(S \ P)

\* C8 witness: a validate run that reports errors of both classes at once.
C8_Witness ==
    /\ fn.op = "validate"
    /\ \E i, j \in DOMAIN fn.errors :
         fn.errors[i][2] = MsgNotInSchema /\ fn.errors[j][2] = MsgMissing

\* C9: diff returns one Add (non-empty value) or Warning (empty value) per
\* name only in edited, one Update with the old and the new value per name
\* in both with different values, one Delete per name only in existing, and
\* nothing else; Add/Warning/Update records follow the order of edited and
\* every Delete record comes after them.
C9_DiffRecordsAndOrder ==
    fn.op = "diff" =>
        LET ed == fn.edited
            ex == fn.existing
            ch == fn.changes
            E == DictKeySet(ed)
            X == DictKeySet(ex)
            Differ == {k \in E \cap X : DictGet(ed, k) # DictGet(ex, k)}
        IN /\ \A k \in E \ X :
                IF DictGet(ed, k) # <<>>
                THEN Count(ch, <<"Adding param", k, DictGet(ed, k)>>) = 1
                ELSE Count(ch, <<"Warning: param not defined", k>>) = 1
           /\ \A k \in Differ :
                Count(ch, <<"Updating param", k, DictGet(ex, k),
                            DictGet(ed, k)>>) = 1
           /\ \A k \in X \ E : Count(ch, <<"Deleting param", k>>) = 1
           /\ Len(ch) = Cardinality(E \ X) + Cardinality(Differ)
                        + Cardinality(X \ E)
           /\ \A i, j \in DOMAIN ch :
                i < j =>
                  /\ IsDelete(ch[i]) => IsDelete(ch[j])
                  /\ (~IsDelete(ch[i]) /\ ~IsDelete(ch[j])) =>
                        KeyPos(ed, ch[i][2]) < KeyPos(ed, ch[j][2])

\* C9 witness: one diff that yields an Add, a Warning, an Update and a Delete.
C9_Witness ==
    /\ fn.op = "diff"
    /\ \A kind \in {"Adding param", "Warning: param not defined",
                    "Updating param", "Deleting param"} :
         \E i \in DOMAIN fn.changes : fn.changes[i][1] = kind

\* C10: diff of an edited mapping equal to the existing mapping (same names,
\* same values) is the empty change list.
C10_DiffOfEqualIsEmpty ==
    (/\ fn.op = "diff"
     /\ DictKeySet(fn.edited) = DictKeySet(fn.existing)
     /\ \A k \in DictKeySet(fn.edited) :
          DictGet(fn.edited, k) = DictGet(fn.existing, k))
    => fn.changes = <<>>

\* C10 witness: two equal mappings of two entries, inserted in different
\* orders, with an empty diff.
C10_Witness ==
    /\ fn.op = "diff"
    /\ Len(fn.edited) = 2
    /\ fn.edited # fn.existing
    /\ DictKeySet(fn.edited) = DictKeySet(fn.existing)
    /\ \A k \in DictKeySet(fn.edited) :
         DictGet(fn.edited, k) = DictGet(fn.existing, k)
    /\ fn.changes = <<>>

ParamPathOf(name) == create_param_path(Project, StageName, name)

\* The names with an Add, Update or Delete record in a change list.
ChangedNames(ch) ==
    {ch[i][2] : i \in {j \in DOMAIN ch :
        ch[j][1] \in {"Adding param", "Updating param", "Deleting param"}}}

\* A text with a line that does not split into exactly two fields at "=".
Malformed(text) ==
    \E l \in Range(ReadLines(text)) : Len(Split(Strip(l), EQ)) # 2

\* push_updates has been entered.
PushStarted == pushIdx >= 1

\* C1: however the edit session ends (the user declines to continue after a
\* validation failure or after rejecting the diff, the diff is empty, the
\* push completes), the temporary file no longer exists.
C1_TempFileRemovedOnEveryExit ==
    pc \in {"aborted", "no_changes", "done"} => ~tmpExists

\* C2: after a push that raised part-way (a create or a delete failed), the
\* temporary file does not exist.
C2_TempFileRemovedAfterFailedPush ==
    (pc = "crashed" /\ PushStarted) => ~tmpExists

\* C3: push issues no put and no delete call for a name whose edited value
\* equals the value the store held for it (a name with no Add, Update or
\* Delete record in the accepted diff).
C3_PushTouchesOnlyChangedParams ==
    \A i \in DOMAIN calls :
        calls[i].op \in {"put_parameter", "delete_parameter"} =>
            ~\E k \in DictKeySet(envs) \cap DOMAIN remote0 :
                /\ calls[i].path = ParamPathOf(k)
                /\ DictGet(envs, k) = remote0[k]
                /\ k \notin ChangedNames(changes)

\* C4: when the k-th create of a push fails, the earlier creates stay
\* committed, no later create and no delete is attempted, and the
\* ParamCreateError raised carries the cause and names the failing parameter.
C4_FailedCreateAbortsAndNamesParam ==
    (pc = "crashed" /\ PushStarted /\ exc.type = "ParamCreateError") =>
        /\ \A i \in 1..(pushIdx - 1) :
              /\ envs[i][1] \in DOMAIN remote
              /\ remote[envs[i][1]] = envs[i][2]
        /\ \A c \in Range(calls) :
              /\ c.op # "delete_parameter"
              /\ \A j \in (pushIdx + 1)..Len(envs) :
                    c.path # ParamPathOf(envs[j][1])
        /\ exc.cause # None
        /\ exc.path = ParamPathOf(envs[pushIdx][1])

\* C5: a push whose creates all succeeded issues exactly one delete call for
\* every name with a Delete record in the accepted diff.
C5_OneDeleteCallPerDeletedParam ==
    (PushStarted /\ pushIdx > Len(envs) /\ pc \in {"done", "crashed"}) =>
        \A i \in DOMAIN changes :
            IsDelete(changes[i]) =>
                Cardinality({j \in DOMAIN calls :
                    /\ calls[j].op = "delete_parameter"
                    /\ calls[j].path = ParamPathOf(changes[i][2])}) = 1

\* C6: a remote put or delete is issued only after the snapshot as last
\* edited passed validation and was reparsed into envs, and the user
\* accepted the non-empty diff computed from it; a session that ends by an
\* abort, with an empty diff or before push makes no remote call and leaves
\* the store as it was.
C6_RemoteCallsOnlyAfterAcceptedValidDiff ==
    /\ calls # <<>> =>
          /\ PushStarted
          /\ pc \in {"push", "push_delete", "done", "crashed"}
          /\ errors = <<>>
          /\ FileNames(file) = DictKeySet(schema)
          /\ Reparse(file) = [ok |-> TRUE, envs |-> envs]
          /\ changes # <<>>
          /\ \E ord \in Orders(DOMAIN remote0) :
                changes = diff(envs, get_params(remote0, ord))
    /\ (pc \in {"aborted", "no_changes"} \/ ~PushStarted) =>
          calls = <<>> /\ remote = remote0

\* C6 witness: a session that pushed an accepted diff to the end.
C6_Witness ==
    /\ pc = "done"
    /\ Len(calls) >= 2
    /\ remote # remote0

\* C7: a snapshot with a line that has not exactly one "=" never ends the
\* session by itself: the session is back at the "Continue editing?" prompt
\* of a validation failure (or was aborted there by the user).
C7_MalformedLineIsRecoverable ==
    (tmpExists /\ pc # "editor" /\ Malformed(file)) =>
        pc \in {"confirm_invalid", "aborted"}

\* C11: when the push of an accepted diff has completed, Stage.validate of
\* the stage's parameters against the same schema raises nothing: the remote
\* names equal the schema keys.
C11_ValidateCleanAfterPush ==
    pc = "done" =>
        /\ StageValidate(schema, DOMAIN remote) = {<<>>}
        /\ DOMAIN remote = DictKeySet(schema)

\* C11 witness: a completed push that created a parameter the stage lacked.
C11_Witness ==
    /\ pc = "done"
    /\ DOMAIN remote # DOMAIN remote0
    /\ StageValidate(schema, DOMAIN remote0) # {<<>>}

\* C12: the snapshot written when a session opens has exactly one line per
\* schema entry, in schema order: name=<value> when the stage has a parameter
\* of that name, name= otherwise (stated for a schema with an entry; for an
\* empty schema the text is one blank line).
C12_SnapshotOneLinePerSchemaEntry ==
    (fn.op = "snapshot" /\ fn.schema # <<>>) =>
        ReadLines(fn.text) =
            [i \in 1..Len(fn.schema) |->
                LET name == fn.schema[i][1]
                IN IF name \in DOMAIN fn.store
                   THEN Line(name, fn.store[name])
                   ELSE Line(name, <<>>)]

\* C13: Param.create called with a type outside String, SecureString,
\* StringList raises ParamCreateError and makes no remote call, put or
\* add-tags, so the store is as it was before the call.
C13_InvalidTypeMakesNoRemoteCall ==
    (fn.op = "add" /\ fn.result # "unknown type"
        /\ fn.type \notin VALID_PARAM_TYPES) =>
        /\ exc.type = "ParamCreateError"
        /\ exc.cause = "Invalid parameter type"
        /\ calls = <<>>
        /\ remote = remote0

C13_Witness ==
    /\ fn.op = "add"
    /\ fn.type = "Bogus"
    /\ exc.type = "ParamCreateError"
    /\ calls = <<>>
    /\ NameD \in DOMAIN remote0
    /\ remote = remote0

\* C17: after any sequence of add commands every schema entry has the shape
\* [type, description?] and its first element, the type a push looks up, is
\* one of String, SecureString, StringList.
C17_SchemaEntriesKeepShape ==
    \A i \in 1..Len(schema) :
        /\ Len(schema[i][2]) \in {1, 2}
        /\ schema[i][2][1] \in VALID_PARAM_TYPES

\* C16: when the editor leaves the seeded snapshot as it is and the stage's
\* parameter names are the schema keys, validation and reparsing succeed, the
\* diff is empty, and the session makes no remote call.
C16_UnchangedSnapshotIsNoOp ==
    (/\ pc \notin {"start", "editor"}
     /\ file = SnapshotText(schema, remote0)
     /\ DOMAIN remote0 = DictKeySet(schema)) =>
        /\ errors = <<>>
        /\ exc = NoExc
        /\ changes = <<>>
        /\ calls = <<>>
        /\ remote = remote0

\* The push has left its create loop and is in, or failed in, its delete loop.
InDeletePhase == PushStarted /\ pushIdx > Len(envs)

\* C15: within one push no delete call is issued before every create/update
\* of the batch has completed successfully, and the first delete that fails
\* stops the remaining deletes: the names after it are neither deleted nor
\* asked to be deleted, and the push completes only with nothing left to
\* delete.
C15_DeletesAfterCreatesFailFast ==
    /\ \A j \in DOMAIN calls :
          calls[j].op = "delete_parameter" =>
              /\ InDeletePhase
              /\ \A k \in DOMAIN calls :
                    k > j => calls[k].op = "delete_parameter"
    /\ (InDeletePhase /\ pc \in {"push_delete", "crashed", "done"}) =>
          \A i \in DOMAIN envs :
              DictHas(schema, envs[i][1]) =>
                  /\ envs[i][1] \in DOMAIN remote
                  /\ remote[envs[i][1]] = envs[i][2]
    /\ (InDeletePhase /\ pc = "crashed") =>
          /\ exc.type \in {"TypeError", "ParamDeleteError"}
          /\ pending # <<>>
          /\ \A i \in DOMAIN pending :
                /\ pending[i] \in DOMAIN remote
                /\ i > 1 => \A j \in DOMAIN calls :
                               calls[j].path # ParamPathOf(pending[i])
    /\ pc = "done" => DOMAIN remote \subseteq DictKeySet(envs)

C15_Witness ==
    /\ InDeletePhase
    /\ pc = "crashed"
    /\ Len(pending) >= 2
    /\ \E j \in DOMAIN calls : calls[j].op = "put_parameter"

\* The edited keys the create loop has passed that satisfy Test.
PassedKeys(Test(_)) ==
    SelectSeq([i \in 1..(IF pushIdx > Len(envs) THEN Len(envs) ELSE pushIdx - 1) |->
                  envs[i]],
              LAMBDA e : Test(e[1]))

\* C14: during push an edited key without a schema entry is skipped with a
\* "not in schema, skipping" notice, causes no remote call and no error, and
\* every other edited key of the batch that has a schema entry is written.
C14_KeyWithoutSchemaEntryIsSkipped ==
    PushStarted =>
        /\ notices = [i \in 1..Len(PassedKeys(LAMBDA k : ~DictHas(schema, k))) |->
                         MsgSkip(PassedKeys(LAMBDA k : ~DictHas(schema, k))[i][1],
                                 PassedKeys(LAMBDA k : ~DictHas(schema, k))[i][2])]
        /\ \A i \in DOMAIN envs :
              ~DictHas(schema, envs[i][1]) =>
                  /\ \A j \in DOMAIN calls :
                        calls[j].path # ParamPathOf(envs[i][1])
                  /\ (envs[i][1] \in DOMAIN remote0 =>
                        /\ envs[i][1] \in DOMAIN remote
                        /\ remote[envs[i][1]] = remote0[envs[i][1]])
                  /\ (envs[i][1] \notin DOMAIN remote0 =>
                        envs[i][1] \notin DOMAIN remote)
        /\ (pc = "crashed" /\ pushIdx <= Len(envs)) =>
              DictHas(schema, envs[pushIdx][1])
        /\ \A i \in DOMAIN PassedKeys(LAMBDA k : DictHas(schema, k)) :
              \E j \in DOMAIN calls :
                  /\ calls[j].op = "put_parameter"
                  /\ calls[j].path =
                        ParamPathOf(PassedKeys(LAMBDA k : DictHas(schema, k))[i][1])
                  /\ calls[j].value =
                        PassedKeys(LAMBDA k : DictHas(schema, k))[i][2]

C14_Witness ==
    /\ pc = "done"
    /\ Len(notices) = 1
    /\ notices[1][2] = NameA
    /\ \E j \in DOMAIN calls :
          calls[j].op = "put_parameter" /\ calls[j].path = ParamPathOf(NameB)

\* C18: once a new stage name is entered (and a base stage selected, if
\* chosen) the new command starts the edit session for the new stage. The
\* loop changes nothing it reads, so its wait ends only if the current stage
\* is the new name while it waits; and leaving the wait starts the session.
C18_NewReachesEditSession ==
    /\ (fn.op = "new" /\ fn.at = "wait") =>
          current_stage(fn.environ) = fn.stage_name
    /\ (fn.op = "new" /\ fn.stage_name # None) =>
          fn.at \in {"confirm", "no stages", "wait", "edit"}

\* The names session i's edit gave a value other than the one its snapshot
\* was seeded with.
EditedNames(i) ==
    {e[1] : e \in {fn.s[i].envs[k] : k \in DOMAIN fn.s[i].envs}} \ 
    {n \in DOMAIN remote0 : DictHas(fn.s[i].envs, n)
                             /\ DictGet(fn.s[i].envs, n) = remote0[n]}

\* C19: two sessions whose snapshots were both opened before either push and
\* which changed disjoint parameters (each diff listing its own session's
\* edits only) have both completed their push: every parameter one of them
\* changed holds that session's value, and a parameter neither changed holds
\* the value it had.
C19_DisjointEditsBothSurvive ==
    (/\ fn.op = "two"
     /\ \A i \in Sessions :
           /\ fn.s[i].at = "done"
           /\ ChangedNames(fn.s[i].changes) = EditedNames(i)
     /\ EditedNames(1) \cap EditedNames(2) = {}) =>
        /\ \A i \in Sessions : \A n \in EditedNames(i) :
              n \in DOMAIN remote /\ remote[n] = DictGet(fn.s[i].envs, n)
        /\ \A n \in DOMAIN remote0 \ (EditedNames(1) \cup EditedNames(2)) :
              n \in DOMAIN remote /\ remote[n] = remote0[n]

====
